---- MODULE Spec2Model ----
(***************************************************************************)
(* Credential issuance and the authenticated request path of the          *)
(* marketing-analytics scripts.                                           *)
(*                                                                         *)
(* The programs modelled, each a separate process:                        *)
(*   "analytics" : WorkingAnalyticsClient / ComprehensiveMarketing-       *)
(*                 Analytics, whose make_request / make_appstore_request  *)
(*                 (identical code) signs a token and performs one HTTP   *)
(*                 exchange per call;                                     *)
(*   "auth_test" : appstore_auth_test.py, whose main signs one token and  *)
(*                 hands it to test_token, which tries three endpoints;   *)
(*   "retry"     : a caller that wraps make_request in the retry policy   *)
(*                 of the error-handling design (three attempts, GET);    *)
(*   "threads"   : two threads calling generate_jwt_token on one client;  *)
(*   "dashboard" : the working directory written by the collection and   *)
(*                 update scripts and read by load_latest_data.           *)
(*                                                                         *)
(* Time is the integer second read by int(time.time()).  It passes only   *)
(* where the code can block: between two calls and while a request is on  *)
(* the wire.                                                              *)
(***************************************************************************)
EXTENDS Integers, Sequences, FiniteSets, TLC

VARIABLES
    script,     \* which program this process runs
    jwtLib,     \* TRUE iff PyJWT / cryptography can be imported
    keyFile,    \* what is found at private_key_path
    clock,      \* int(time.time())
    pc,         \* position of the process
    req,        \* arguments of the make_request call in progress
    cred,       \* local variable `token` of the call in progress
    lastCred,   \* token the previous completed call had signed (history)
    wire,       \* the most recent outbound request, as the remote sees it (history)
    sends,      \* outbound requests sent by the call in progress (history)
    resp,       \* network condition the last completed exchange met (history)
    ret,        \* value returned by the last completed call
    returned,   \* number of values the call in progress has returned (history)
    fault,      \* exception that escaped the call, "none" if none
    idx,        \* test_token: index into endpoints_to_test
    rc,         \* the retrying caller: its request, attempts made, state
    tpc,        \* per thread: position inside generate_jwt_token
    tnow,       \* per thread: local variable `now`
    ttok,       \* per thread: the token generate_jwt_token returned
    files,      \* marketing_*.json files of the working directory
    loaded,     \* value load_latest_data returned last
    upd,        \* the last run of the update script: its input and output (history)
    results,    \* the `results` dict a collecting method is filling
    col,        \* the collector's job: its locals and the calls it made
    daily,      \* marketing_*.json files of today's automated_data directory
    summaries   \* number of times daily_summary.json was written (history)

\* State of the retrying caller, of the threads and of the working
\* directory: untouched by the request path of one client.
\* State of the update script, of the collecting methods and of the
\* automated collector.
jobVars == <<upd, results, col, daily, summaries>>

extVars == <<rc, tpc, tnow, ttok, files, loaded, jobVars>>

vars == <<script, jwtLib, keyFile, clock, pc, req, cred, lastCred, wire,
          sends, resp, ret, returned, fault, idx, rc, tpc, tnow, ttok,
          files, loaded, upd, results, col, daily, summaries>>

----------------------------------------------------------------------------
(* Bounds of the model *)

MaxClock == 1260

MaxThreadClock == 2

MaxFileClock == 2

MaxJobs == 2

TickSizes == {60, 600}

(* Program constants *)

TokenLifetime == 1200

RequestTimeout == 30

NumTestEndpoints == 3

----------------------------------------------------------------------------
(* Python values.  A dict is a record; an int or str stored in a dict is  *)
(* tagged with its type, as Python keeps 401 and "request_failed" apart.  *)

JInt(n) == <<"int", n>>

JStr(s) == <<"str", s>>

NoCred == <<>>

NoWire == [sent |-> FALSE]

NoReq == [active |-> FALSE]

NoResp == [kind |-> "none"]

NoRet == [no_value |-> TRUE]

NoRetry == [state |-> "none", method |-> "GET", attempts |-> 0, seen |-> <<>>]

NoLoad == [called |-> FALSE]

NoUpdate == [called |-> FALSE]

NoResults == [step |-> 0]

NoJob == [job |-> "none", pc |-> "idle", calls |-> <<>>,
          data_success |-> FALSE, dashboard_success |-> FALSE,
          collect_exit |-> "none", organize |-> "not_called",
          dashboard_exit |-> "none", generated |-> FALSE, loadedRun |-> -1]

Threads == {1, 2}

Scripts == {"analytics", "auth_test", "retry", "threads", "dashboard",
            "collect", "create", "collector"}

KeyFileStates == {"valid", "missing", "unparsable"}

Endpoints == {"/v1/apps"}

Methods == {"GET", "POST", "PATCH"}

Nonces == {0, 1}

Statuses == {200, 201, 202, 204, 302, 400, 401, 403, 404, 500, 503}

\* The answers tried on each of the three requests of a collecting method.
CollectStatuses == {200, 202, 204, 404, 500}

StatusesOf(sc) == IF sc \in {"collect", "create"} THEN CollectStatuses ELSE Statuses

\* The signatures of the collecting methods' tokens are not told apart.
CollectNonces == {0}

EmptyDict == [x \in {} |-> x]

BodyData == "{\"data\": {\"id\": \"6747953770\"}}"

BodyErrorKey == "{\"error\": 404, \"message\": \"nf\", \"endpoint\": \"/v1/apps\"}"

BodyPlain == "nf"

BodyEmpty == ""

Bodies == {BodyData, BodyErrorKey, BodyPlain, BodyEmpty}

TransportCauses == {"ConnectionError", "SSLError"}

----------------------------------------------------------------------------
(* Token signing *)

key_id == "RHM24L7VXD"

issuer_id == "c419fd84-aa0b-4d05-9688-19d736cc2575"

\* jwt.encode: header segment, claims segment, signature segment.  ECDSA
\* draws a fresh nonce k at every signature.
jwt_encode(payload, headers, k) ==
    << headers @@ [alg |-> "ES256"], payload, [over |-> <<headers, payload>>, k |-> k] >>

\* jwt.decode(token, verify_signature=False): the claims segment.
jwt_decode(token) == token[2]

\* Variant: the lifetime written in minutes instead of seconds.
generate_jwt_token_Minutes(now, k) ==
    LET exp == now + 20
        payload == [iss |-> issuer_id, iat |-> now, exp |-> exp,
                    aud |-> "appstoreconnect-v1"]
        headers == [kid |-> key_id, typ |-> "JWT"]
    IN  jwt_encode(payload, headers, k)

\* Variant: the two timestamps of the payload are exchanged.
generate_jwt_token_Swapped(now, k) ==
    LET exp == now + TokenLifetime
        payload == [iss |-> issuer_id, iat |-> exp, exp |-> now,
                    aud |-> "appstoreconnect-v1"]
        headers == [kid |-> key_id, typ |-> "JWT"]
    IN  jwt_encode(payload, headers, k)

\* Variant: the payload names no audience.
generate_jwt_token_NoAud(now, k) ==
    LET exp == now + TokenLifetime
        payload == [iss |-> issuer_id, iat |-> now, exp |-> exp]
        headers == [kid |-> key_id, typ |-> "JWT"]
    IN  jwt_encode(payload, headers, k)

generate_jwt_token(now, k) ==
    LET exp == now + TokenLifetime
        payload == [iss |-> issuer_id, iat |-> now, exp |-> exp,
                    aud |-> "appstoreconnect-v1"]
        headers == [kid |-> key_id, typ |-> "JWT"]
    IN  jwt_encode(payload, headers, k)

\* Variant: a key file that cannot be read or parsed is not noticed.
GenerateBranch_IgnoreKey(lib, key) ==
    IF ~lib THEN "ImportError"
    ELSE "token"

\* The try block of generate_jwt_token: which branch it leaves by.
GenerateBranch(lib, key) ==
    IF ~lib THEN "ImportError"
    ELSE IF key # "valid" THEN "Exception"
    ELSE "token"

----------------------------------------------------------------------------
(* Response handling of make_request *)

\* response.json()
ParseJson(text) ==
    CASE text = BodyData ->
            [ok |-> TRUE, value |-> [data |-> [id |-> JStr("6747953770")]]]
      [] text = BodyErrorKey ->
            [ok |-> TRUE, value |-> [error |-> JInt(404), message |-> JStr("nf"),
                                     endpoint |-> JStr("/v1/apps")]]
      [] OTHER -> [ok |-> FALSE]

SuccessStatuses == {200, 201, 202}

\* str(e)
StrOfException(e) ==
    CASE e = "JSONDecodeError" -> "Expecting value: line 1 column 1 (char 0)"
      [] e = "ConnectionError" -> "Connection aborted"
      [] e = "SSLError" -> "certificate verify failed"
      [] e = "Timeout" -> "Read timed out"
      [] OTHER -> e

\* Classes derived from Exception
ExceptionClasses == {"JSONDecodeError", "ConnectionError", "SSLError", "Timeout"}

\* Variant: only the transport errors of requests are caught.
CatchesException_RequestOnly(e) == e \in {"ConnectionError", "SSLError", "Timeout"}

\* `except Exception as e` of make_request
CatchesException(e) == e \in ExceptionClasses

\* Variant: the error value keeps only the class of the status (4xx -> 400).
ClassifyResponse_StatusClass(endpoint, status, text) ==
    IF status \in SuccessStatuses
    THEN IF ParseJson(text).ok
         THEN [raised |-> "none", value |-> ParseJson(text).value]
         ELSE [raised |-> "JSONDecodeError"]
    ELSE [raised |-> "none",
          value |-> [error |-> JInt((status \div 100) * 100), message |-> JStr(text),
                     endpoint |-> JStr(endpoint)]]

\* Variant: the success branch hands back the raw text, not the parsed body.
ClassifyResponse_RawText(endpoint, status, text) ==
    IF status \in SuccessStatuses
    THEN [raised |-> "none", value |-> [body |-> JStr(text)]]
    ELSE [raised |-> "none",
          value |-> [error |-> JInt(status), message |-> JStr(text),
                     endpoint |-> JStr(endpoint)]]

\* Variant: the error value names no status, only that HTTP failed.
ClassifyResponse_NoStatus(endpoint, status, text) ==
    IF status \in SuccessStatuses
    THEN IF ParseJson(text).ok
         THEN [raised |-> "none", value |-> ParseJson(text).value]
         ELSE [raised |-> "JSONDecodeError"]
    ELSE [raised |-> "none",
          value |-> [error |-> JStr("http_error"), message |-> JStr(text),
                     endpoint |-> JStr(endpoint)]]

\* The statements after the request inside the try block.
ClassifyResponse(endpoint, status, text) ==
    IF status \in SuccessStatuses
    THEN IF ParseJson(text).ok
         THEN [raised |-> "none", value |-> ParseJson(text).value]
         ELSE [raised |-> "JSONDecodeError"]
    ELSE [raised |-> "none",
          value |-> [error |-> JInt(status), message |-> JStr(text),
                     endpoint |-> JStr(endpoint)]]

RequestFailed(endpoint, e) ==
    [error |-> JStr("request_failed"), message |-> JStr(StrOfException(e)),
     endpoint |-> JStr(endpoint)]

----------------------------------------------------------------------------
(* How a caller reads the value make_request returned: the parsed body    *)
(* when it has no "error" key (the test collect_marketing_data applies),  *)
(* otherwise an error whose "error" field is the HTTP status or the       *)
(* string "request_failed".                                               *)

OutcomeOf(v) ==
    IF "error" \notin DOMAIN v THEN "Success"
    ELSE IF v.error[1] = "str"
         THEN IF v.error[2] = "request_failed" THEN "TransportFailure" ELSE "Unknown"
    ELSE IF v.error[2] \in {401, 403} THEN "AuthFailure"
    ELSE IF v.error[2] \in 400..499 THEN "ClientError"
    ELSE IF v.error[2] \in 500..599 THEN "ServerError"
    ELSE "Unknown"

----------------------------------------------------------------------------
Init ==
    /\ script \in Scripts
    /\ jwtLib \in BOOLEAN
    /\ keyFile \in KeyFileStates
    /\ clock = 0
    /\ pc = CASE script \in {"analytics", "retry", "collect", "create"} -> "idle"
              [] script = "auth_test" -> "main"
              [] OTHER -> script
    /\ req = NoReq
    /\ cred = NoCred
    /\ lastCred = NoCred
    /\ wire = NoWire
    /\ sends = 0
    /\ resp = NoResp
    /\ ret = NoRet
    /\ returned = 0
    /\ fault = "none"
    /\ idx = 0
    /\ rc = NoRetry
    /\ tpc = [t \in Threads |-> "idle"]
    /\ tnow = [t \in Threads |-> 0]
    /\ ttok = [t \in Threads |-> NoCred]
    /\ files = {}
    /\ loaded = NoLoad
    /\ upd = NoUpdate
    /\ results = CASE script = "collect" ->
                        [step |-> 0, data |-> EmptyDict, met |-> <<>>]
                   [] script = "create" ->
                        [step |-> 0, created_requests |-> <<>>, errors |-> <<>>,
                         met |-> <<>>, posts |-> 0]
                   [] OTHER -> NoResults
    /\ col = NoJob
    /\ daily = {}
    /\ summaries = 0

\* Time passes between two calls and while a request without timeout is
\* on the wire.
Tick(d) ==
    /\ script = "analytics"
    /\ pc \in {"idle", "waiting"}
    /\ clock + d <= MaxClock
    /\ clock' = clock + d
    /\ UNCHANGED <<script, jwtLib, keyFile, pc, req, cred, lastCred, wire,
                   sends, resp, ret, returned, fault, idx>>
    /\ UNCHANGED extVars

\* The file at private_key_path is outside the program's control.
KeyFileChanges(k) ==
    /\ pc = "idle"
    /\ k # keyFile
    /\ keyFile' = k
    /\ UNCHANGED <<script, jwtLib, clock, pc, req, cred, lastCred, wire,
                   sends, resp, ret, returned, fault, idx>>
    /\ UNCHANGED extVars

\* make_request entered: token = self.generate_jwt_token(), headers, url.
make_request_begin(endpoint, method, k) ==
    /\ pc = "idle"
    /\ req' = [active |-> TRUE, endpoint |-> endpoint, method |-> method]
    /\ sends' = 0
    /\ returned' = 0
    /\ ret' = NoRet
    /\ resp' = NoResp
    /\ IF GenerateBranch(jwtLib, keyFile) = "token"
       THEN /\ cred' = generate_jwt_token(clock, k)
            /\ pc' = "built"
       ELSE /\ cred' = NoCred
            /\ pc' = "exited"
    /\ UNCHANGED <<script, jwtLib, keyFile, clock, lastCred, wire, fault, idx>>
    /\ UNCHANGED extVars

\* Variant: the Authorization header carries the token of the call before.
session_send_Stale ==
    /\ pc = "built"
    /\ wire' = [sent |-> TRUE, token |-> lastCred, sentAt |-> clock,
                endpoint |-> req.endpoint, method |-> req.method,
                hasTimeout |-> FALSE]
    /\ sends' = sends + 1
    /\ pc' = "waiting"
    /\ UNCHANGED <<script, jwtLib, keyFile, clock, req, cred, lastCred, resp,
                   ret, returned, fault, idx>>
    /\ UNCHANGED extVars

\* self.session.get / post / request: no timeout argument.
session_send ==
    /\ pc = "built"
    /\ wire' = [sent |-> TRUE, token |-> cred, sentAt |-> clock,
                endpoint |-> req.endpoint, method |-> req.method,
                hasTimeout |-> FALSE]
    /\ sends' = sends + 1
    /\ pc' = "waiting"
    /\ UNCHANGED <<script, jwtLib, keyFile, clock, req, cred, lastCred, resp,
                   ret, returned, fault, idx>>
    /\ UNCHANGED extVars

\* The call returns value v to its caller.
Return(v) ==
    /\ ret' = v
    /\ returned' = returned + 1
    /\ pc' = "idle"
    /\ lastCred' = cred
    /\ cred' = NoCred
    /\ req' = NoReq
    /\ fault' = fault

\* Variant: a caught failure sends the request once more before giving up.
Except_Retry(e) ==
    IF CatchesException(e) /\ sends < 2
    THEN /\ pc' = "built"
         /\ UNCHANGED <<ret, returned, lastCred, cred, req, fault>>
    ELSE IF CatchesException(e)
    THEN Return(RequestFailed(req.endpoint, e))
    ELSE /\ fault' = e
         /\ pc' = "raised"
         /\ UNCHANGED <<ret, returned, lastCred, cred, req>>

\* Exception e raised inside the try block.
Except(e) ==
    IF CatchesException(e)
    THEN Return(RequestFailed(req.endpoint, e))
    ELSE /\ fault' = e
         /\ pc' = "raised"
         /\ UNCHANGED <<ret, returned, lastCred, cred, req>>

\* The remote answers with a status and a body.
ReceiveResponse(status, text) ==
    /\ pc = "waiting"
    /\ resp' = [kind |-> "http", status |-> status, text |-> text]
    /\ LET r == ClassifyResponse(req.endpoint, status, text)
       IN  IF r.raised = "none" THEN Return(r.value) ELSE Except(r.raised)
    /\ UNCHANGED <<script, jwtLib, keyFile, clock, wire, sends, idx>>
    /\ UNCHANGED extVars

\* The exchange fails below HTTP: connection refused, DNS, TLS.
TransportError(cause) ==
    /\ pc = "waiting"
    /\ resp' = [kind |-> "transport", cause |-> cause]
    /\ Except(cause)
    /\ UNCHANGED <<script, jwtLib, keyFile, clock, wire, sends, idx>>
    /\ UNCHANGED extVars

----------------------------------------------------------------------------
(* appstore_auth_test.py *)

endpoints_to_test == <<"/v1/apps", "/v1/users/me", "/v1/analyticsReports">>

Min(a, b) == IF a < b THEN a ELSE b

\* Variant: generate_jwt_token tries the new token against the API itself.
main_generate_Probe(k) ==
    /\ pc = "main"
    /\ IF GenerateBranch(jwtLib, keyFile) = "token"
       THEN /\ cred' = generate_jwt_token(clock, k)
            /\ idx' = 1
            /\ pc' = "test_send"
            /\ wire' = [sent |-> TRUE, token |-> cred', sentAt |-> clock,
                        endpoint |-> "/v1/apps", method |-> "GET",
                        hasTimeout |-> TRUE]
            /\ sends' = sends + 1
       ELSE /\ cred' = NoCred
            /\ idx' = idx
            /\ pc' = "exited"
            /\ UNCHANGED <<wire, sends>>
    /\ UNCHANGED <<script, jwtLib, keyFile, clock, req, lastCred, resp, ret,
                   returned, fault>>
    /\ UNCHANGED extVars

\* __main__: token = generate_jwt_token(); the token is decoded for
\* inspection and passed to test_token.
main_generate(k) ==
    /\ pc = "main"
    /\ IF GenerateBranch(jwtLib, keyFile) = "token"
       THEN /\ cred' = generate_jwt_token(clock, k)
            /\ idx' = 1
            /\ pc' = "test_send"
       ELSE /\ cred' = NoCred
            /\ idx' = idx
            /\ pc' = "exited"
    /\ UNCHANGED <<script, jwtLib, keyFile, clock, req, lastCred, wire, sends,
                   resp, ret, returned, fault>>
    /\ UNCHANGED extVars

\* requests.get(url, headers=headers, timeout=30)
test_token_send ==
    /\ pc = "test_send"
    /\ wire' = [sent |-> TRUE, token |-> cred, sentAt |-> clock,
                endpoint |-> endpoints_to_test[idx], method |-> "GET",
                hasTimeout |-> TRUE]
    /\ sends' = sends + 1
    /\ pc' = "test_wait"
    /\ UNCHANGED <<script, jwtLib, keyFile, clock, req, cred, lastCred, resp,
                   ret, returned, fault, idx>>
    /\ UNCHANGED extVars

\* Variant: the request is sent without timeout=30.
TestTick_NoTimeout(d) ==
    /\ pc = "test_wait"
    /\ clock + d <= MaxClock
    /\ clock' = clock + d
    /\ UNCHANGED <<script, jwtLib, keyFile, pc, req, cred, lastCred, wire,
                   sends, resp, ret, returned, fault, idx>>
    /\ UNCHANGED extVars

\* Time passes while the request waits, up to its timeout.
TestTick(d) ==
    /\ pc = "test_wait"
    /\ clock < wire.sentAt + RequestTimeout
    /\ clock' = Min(clock + d, wire.sentAt + RequestTimeout)
    /\ clock' <= MaxClock
    /\ UNCHANGED <<script, jwtLib, keyFile, pc, req, cred, lastCred, wire,
                   sends, resp, ret, returned, fault, idx>>
    /\ UNCHANGED extVars

\* The loop moves to the next endpoint; after the last one test_token
\* returns False and __main__ exits with status 1.
NextEndpoint ==
    IF idx < NumTestEndpoints
    THEN /\ idx' = idx + 1
         /\ pc' = "test_send"
         /\ UNCHANGED <<ret, returned>>
    ELSE /\ idx' = idx
         /\ ret' = [bool |-> FALSE]
         /\ returned' = returned + 1
         /\ pc' = "exited"

\* A response arrives.  On 200 the body is parsed; whether the decoding
\* error of an unparsable body is a RequestException depends on the
\* installed requests release (caught = TRUE) or not (it reaches
\* __main__'s `except Exception`, which exits).
test_token_response(status, text, caught) ==
    /\ pc = "test_wait"
    /\ resp' = [kind |-> "http", status |-> status, text |-> text]
    /\ IF status = 200
       THEN IF ParseJson(text).ok
            THEN /\ ret' = [bool |-> TRUE]
                 /\ returned' = returned + 1
                 /\ pc' = "finished"
                 /\ idx' = idx
            ELSE IF caught
                 THEN NextEndpoint
                 ELSE /\ pc' = "exited"
                      /\ UNCHANGED <<ret, returned, idx>>
       ELSE NextEndpoint
    /\ UNCHANGED <<script, jwtLib, keyFile, clock, req, cred, lastCred, wire,
                   sends, fault>>
    /\ UNCHANGED extVars

\* except requests.exceptions.RequestException
test_token_exception(cause) ==
    /\ pc = "test_wait"
    /\ resp' = [kind |-> "transport", cause |-> cause]
    /\ NextEndpoint
    /\ UNCHANGED <<script, jwtLib, keyFile, clock, req, cred, lastCred, wire,
                   sends, fault>>
    /\ UNCHANGED extVars

\* timeout=30 expires: requests raises Timeout, a RequestException.
test_token_timeout ==
    /\ pc = "test_wait"
    /\ clock >= wire.sentAt + RequestTimeout
    /\ resp' = [kind |-> "transport", cause |-> "Timeout"]
    /\ NextEndpoint
    /\ UNCHANGED <<script, jwtLib, keyFile, clock, req, cred, lastCred, wire,
                   sends, fault>>
    /\ UNCHANGED extVars

----------------------------------------------------------------------------
(* The retrying caller of the error-handling design: transient outcomes   *)
(* (ServerError, TransportFailure) of an idempotent request are retried,  *)
(* three attempts in all.  Its attempts are calls of make_request.        *)

MaxAttempts == 3

IdempotentMethods == {"GET"}

ShouldRetry(outcome, method) ==
    /\ outcome \in {"ServerError", "TransportFailure"}
    /\ method \in IdempotentMethods

\* What the attempt met: the HTTP status and whether the body parses; status
\* 0 stands for a transport failure.
Met(r) ==
    IF r.kind = "http"
    THEN [s |-> r.status, ok |-> ParseJson(r.text).ok]
    ELSE [s |-> 0, ok |-> FALSE]

\* A new logical request is handed to the retrying caller.
retry_new(method) ==
    /\ script = "retry"
    /\ pc = "idle"
    /\ rc.state \in {"none", "done"}
    /\ rc' = [state |-> "attempt", method |-> method, attempts |-> 0, seen |-> <<>>]
    /\ returned' = 0
    /\ ret' = NoRet
    /\ resp' = NoResp
    /\ UNCHANGED <<script, jwtLib, keyFile, clock, pc, req, cred, lastCred,
                   wire, sends, fault, idx, tpc, tnow, ttok, files, loaded>>
    /\ UNCHANGED jobVars

\* One attempt: the caller calls make_request.
retry_attempt(k) ==
    /\ script = "retry"
    /\ rc.state = "attempt"
    /\ returned = 0
    /\ make_request_begin("/v1/apps", rc.method, k)

\* The attempt has returned: retry or hand the outcome on.
retry_check ==
    /\ script = "retry"
    /\ pc = "idle"
    /\ rc.state = "attempt"
    /\ returned = 1
    /\ LET n == rc.attempts + 1
           seen == Append(rc.seen, Met(resp))
       IN  IF ShouldRetry(OutcomeOf(ret), rc.method) /\ n < MaxAttempts
           THEN /\ rc' = [rc EXCEPT !.attempts = n, !.seen = seen]
                /\ returned' = 0
           ELSE /\ rc' = [rc EXCEPT !.attempts = n, !.seen = seen, !.state = "done"]
                /\ returned' = returned
    /\ UNCHANGED <<script, jwtLib, keyFile, clock, pc, req, cred, lastCred,
                   wire, sends, resp, ret, fault, idx, tpc, tnow, ttok, files,
                   loaded>>
    /\ UNCHANGED jobVars

----------------------------------------------------------------------------
(* Two threads call generate_jwt_token on the same client.  The method    *)
(* keeps the key, `now` and the token in local variables; the client      *)
(* object holds no credential.                                            *)

\* with open(self.private_key_path) ...: load_pem_private_key; a failure
\* ends in sys.exit(1), which ends the calling thread.
thread_load_key(t) ==
    /\ script = "threads"
    /\ tpc[t] = "idle"
    /\ tpc' = [tpc EXCEPT ![t] = IF GenerateBranch(jwtLib, keyFile) = "token"
                                 THEN "key_loaded" ELSE "exited"]
    /\ UNCHANGED <<script, jwtLib, keyFile, clock, pc, req, cred, lastCred,
                   wire, sends, resp, ret, returned, fault, idx, rc, tnow,
                   ttok, files, loaded>>
    /\ UNCHANGED jobVars

\* now = int(time.time())
thread_read_clock(t) ==
    /\ script = "threads"
    /\ tpc[t] = "key_loaded"
    /\ tnow' = [tnow EXCEPT ![t] = clock]
    /\ tpc' = [tpc EXCEPT ![t] = "clock_read"]
    /\ UNCHANGED <<script, jwtLib, keyFile, clock, pc, req, cred, lastCred,
                   wire, sends, resp, ret, returned, fault, idx, rc, ttok,
                   files, loaded>>
    /\ UNCHANGED jobVars

\* return jwt.encode(payload, private_key, ...): the caller now holds the
\* token and may call again.
thread_encode(t, k) ==
    /\ script = "threads"
    /\ tpc[t] = "clock_read"
    /\ ttok' = [ttok EXCEPT ![t] = generate_jwt_token(tnow[t], k)]
    /\ tpc' = [tpc EXCEPT ![t] = "idle"]
    /\ UNCHANGED <<script, jwtLib, keyFile, clock, pc, req, cred, lastCred,
                   wire, sends, resp, ret, returned, fault, idx, rc, tnow,
                   files, loaded>>
    /\ UNCHANGED jobVars

\* A second passes while the threads run.
thread_tick ==
    /\ script = "threads"
    /\ clock < MaxThreadClock
    /\ clock' = clock + 1
    /\ UNCHANGED <<script, jwtLib, keyFile, pc, req, cred, lastCred, wire,
                   sends, resp, ret, returned, fault, idx>>
    /\ UNCHANGED extVars

----------------------------------------------------------------------------
(* The working directory.  A file marketing_<kind>_[updated_]<ts>.json is *)
(* a record of its name parts and of the collection run its data came     *)
(* from; <ts> is strftime('%Y%m%d_%H%M%S') of the clock, fixed width, so  *)
(* two timestamps compare as strings the way they compare as times.       *)

FileKinds == {"raw_data", "kpis", "report"}

File(kind, updated, ts, origin) ==
    [kind |-> kind, updated |-> updated, ts |-> ts, origin |-> origin]

SameName(f, g) == f.kind = g.kind /\ f.updated = g.updated /\ f.ts = g.ts

\* Python's order on the names of two files of one kind: after the common
\* prefix a digit of <ts> sorts before the 'u' of "updated_".
NameLeq(f, g) ==
    IF f.updated = g.updated THEN f.ts <= g.ts ELSE ~f.updated

\* max(names) and sorted(names)[-1]
MaxName(S) == CHOOSE f \in S : \A g \in S : NameLeq(g, f)

\* open(name, 'w'); json.dump
WriteFile(F, f) == {g \in F : ~SameName(g, f)} \cup {f}

\* [f for f in data_files if kind in f]
OfKind(F, kind) == {f \in F : f.kind = kind}

\* The collection run that wrote the newest plain raw-data file.
LatestRun(F) ==
    LET runs == {f.ts : f \in {g \in OfKind(F, "raw_data") : ~g.updated}}
    IN  IF runs = {} THEN -1 ELSE CHOOSE r \in runs : \A q \in runs : q <= r

\* comprehensive_marketing_analytics.main: the three files of one run.
collection_run ==
    /\ script = "dashboard"
    /\ files' = WriteFile(WriteFile(WriteFile(files,
                    File("raw_data", FALSE, clock, clock)),
                    File("kpis", FALSE, clock, clock)),
                    File("report", FALSE, clock, clock))
    /\ UNCHANGED <<script, jwtLib, keyFile, clock, pc, req, cred, lastCred,
                   wire, sends, resp, ret, returned, fault, idx, rc, tpc,
                   tnow, ttok, loaded>>
    /\ UNCHANGED jobVars

\* update_marketing_data_with_real_values; upd records the file it read,
\* the file it wrote and the newest collection run present at the time.
update_run ==
    /\ script = "dashboard"
    /\ LET data_files == OfKind(files, "raw_data")
           kpi_files == OfKind(files, "kpis")
       IN  IF data_files = {}
           THEN /\ files' = files
                /\ upd' = [called |-> TRUE, ok |-> FALSE, atRun |-> LatestRun(files)]
           ELSE LET latest_file == MaxName(data_files)
                    updated_file == File("raw_data", TRUE, clock, latest_file.origin)
                    withRaw == WriteFile(files, updated_file)
                IN  /\ upd' = [called |-> TRUE, ok |-> TRUE, atRun |-> LatestRun(files),
                               input |-> latest_file, output |-> updated_file]
                    /\ IF kpi_files = {}
                       THEN files' = withRaw
                       ELSE files' = WriteFile(withRaw,
                                       File("kpis", TRUE, clock,
                                            MaxName(kpi_files).origin))
    /\ UNCHANGED <<script, jwtLib, keyFile, clock, pc, req, cred, lastCred,
                   wire, sends, resp, ret, returned, fault, idx, rc, tpc,
                   tnow, ttok, loaded>>
    /\ UNCHANGED <<results, col, daily, summaries>>

\* MarketingDashboard.load_latest_data; {} when there is no file, or when
\* max() of an empty list raises.  atRun records the newest collection run
\* present when the call was made.
LoadLatest(F) ==
    IF \E kind \in FileKinds : OfKind(F, kind) = {}
    THEN [called |-> TRUE, ok |-> FALSE, atRun |-> LatestRun(F)]
    ELSE [called |-> TRUE, ok |-> TRUE, atRun |-> LatestRun(F),
          raw |-> MaxName(OfKind(F, "raw_data")),
          kpis |-> MaxName(OfKind(F, "kpis")),
          report |-> MaxName(OfKind(F, "report"))]

load_latest_data ==
    /\ script = "dashboard"
    /\ loaded' = LoadLatest(files)
    /\ UNCHANGED <<script, jwtLib, keyFile, clock, pc, req, cred, lastCred,
                   wire, sends, resp, ret, returned, fault, idx, rc, tpc,
                   tnow, ttok, files>>
    /\ UNCHANGED jobVars

\* Time passes between two runs.
file_tick ==
    /\ script = "dashboard"
    /\ clock < MaxFileClock
    /\ clock' = clock + 1
    /\ UNCHANGED <<script, jwtLib, keyFile, pc, req, cred, lastCred, wire,
                   sends, resp, ret, returned, fault, idx>>
    /\ UNCHANGED extVars

----------------------------------------------------------------------------
(* WorkingAnalyticsClient.collect_marketing_data: three requests in a row, *)
(* each result filed in results["data"] under its key or its error key.    *)

CollectPlan ==
    << [endpoint |-> "/v1/apps/6747953770", method |-> "GET",
        key |-> "app_info", error_key |-> "app_info_error"],
       [endpoint |-> "/v1/apps/6747953770/analyticsReportRequests", method |-> "GET",
        key |-> "analytics_reports", error_key |-> "analytics_reports_error"],
       [endpoint |-> "/v1/analyticsReportRequests", method |-> "POST",
        key |-> "new_report_request", error_key |-> "report_request_error"] >>

\* if "error" not in app_info: ... else: ...
FileUnder(value, plan) ==
    IF "error" \notin DOMAIN value THEN plan.key ELSE plan.error_key

\* get_app_info / get_app_analytics_reports / create_sales_report_request
collect_call(k) ==
    /\ script = "collect"
    /\ results.step < Len(CollectPlan)
    /\ returned = 0
    /\ make_request_begin(CollectPlan[results.step + 1].endpoint,
                          CollectPlan[results.step + 1].method, k)

\* The request has returned: file its result.  `met` keeps what the
\* request met on the network.
collect_store ==
    /\ script = "collect"
    /\ pc = "idle"
    /\ returned = 1
    /\ LET plan == CollectPlan[results.step + 1]
       IN  results' = [step |-> results.step + 1,
                       data |-> (FileUnder(ret, plan) :> ret) @@ results.data,
                       met |-> Append(results.met, Met(resp))]
    /\ returned' = 0
    /\ ret' = NoRet
    /\ resp' = NoResp
    /\ UNCHANGED <<script, jwtLib, keyFile, clock, pc, req, cred, lastCred,
                   wire, sends, fault, idx, rc, tpc, tnow, ttok, files, loaded,
                   upd, col, daily, summaries>>

----------------------------------------------------------------------------
(* ComprehensiveMarketingAnalytics.create_comprehensive_analytics_requests *)

report_types == <<"APP_USAGE", "APP_DOWNLOADS", "SALES">>

\* result = self.make_appstore_request("/v1/analyticsReportRequests", "POST", ...)
create_call(k) ==
    /\ script = "create"
    /\ results.step < Len(report_types)
    /\ returned = 0
    /\ make_request_begin("/v1/analyticsReportRequests", "POST", k)

\* results["created_requests"].append(...), or, when an exception left
\* make_appstore_request, results["errors"].append(...); then the loop
\* goes on.  `posts` counts the requests sent so far.
create_store ==
    /\ script = "create"
    /\ \/ pc = "idle" /\ returned = 1
       \/ pc = "raised"
    /\ LET type == report_types[results.step + 1]
       IN  IF pc = "raised"
           THEN results' = [results EXCEPT
                              !.step = @ + 1,
                              !.errors = Append(@, [report_type |-> type,
                                                    error |-> StrOfException(fault)]),
                              !.met = Append(@, Met(resp)),
                              !.posts = @ + sends]
           ELSE results' = [results EXCEPT
                              !.step = @ + 1,
                              !.created_requests =
                                  Append(@, [report_type |-> type, result |-> ret]),
                              !.met = Append(@, Met(resp)),
                              !.posts = @ + sends]
    /\ returned' = 0
    /\ ret' = NoRet
    /\ resp' = NoResp
    /\ fault' = "none"
    /\ pc' = "idle"
    /\ UNCHANGED <<script, jwtLib, keyFile, clock, req, cred, lastCred, wire,
                   sends, idx, rc, tpc, tnow, ttok, files, loaded, upd, col,
                   daily, summaries>>

----------------------------------------------------------------------------
(* automated_marketing_collector.py: a job runs the collection script and *)
(* the dashboard script as child processes with subprocess.run, which     *)
(* returns when the child exits.  The children work in script_dir (the    *)
(* set `files`); organize_generated_files moves what is there to the      *)
(* day's directory (`daily`).                                             *)

Jobs == {"daily", "weekly", "manual"}

\* How a subprocess.run ended: the child's return code, or an exception
\* raised before there was a child.
ChildOutcomes == {"exit0", "exit1", "spawn_failed"}

\* The files main of the collection script writes, in its order.
WriteOrder == <<"raw_data", "kpis", "report">>

\* Variant: a failure while organizing the files makes the run a failure.
ReturnOfCollection_OrganizeCounts(outcome, organized) ==
    outcome = "exit0" /\ organized

\* run_data_collection: if result.returncode == 0: ... return True
ReturnOfCollection(outcome, organized) == outcome = "exit0"

\* Variant: the summary is generated whatever the collection returned.
CallsSummary_Always(job, success) == job = "daily"

\* daily_collection_job: if success: self.generate_daily_summary()
CallsSummary(job, success) == job = "daily" /\ success

\* Variant: the manual run generates dashboards whatever the collection
\* returned.
RunsDashboard_Always(job, success) == job \in {"weekly", "manual"}

\* Variant: the weekly job skips the dashboards after a failed collection.
RunsDashboard_AfterSuccess(job, success) ==
    job \in {"weekly", "manual"} /\ success

\* weekly_full_analysis_job calls run_dashboard_generation unconditionally,
\* run_manual_collection inside `if success:`.
RunsDashboard(job, success) ==
    job = "weekly" \/ (job = "manual" /\ success)

\* if data_success and dashboard_success: self.generate_weekly_report()
CallsWeeklyReport(job, data_success, dashboard_success) ==
    job = "weekly" /\ data_success /\ dashboard_success

\* A job starts and calls run_data_collection, whose subprocess.run either
\* starts the child or raises.
job_start(job, spawned) ==
    /\ script = "collector"
    /\ col.pc \in {"idle", "done"}
    /\ clock < MaxJobs
    /\ clock' = clock + 1
    /\ IF spawned
       THEN col' = [NoJob EXCEPT !.job = job, !.pc = "collecting",
                                 !.calls = <<"run_data_collection">>]
       ELSE col' = [NoJob EXCEPT !.job = job, !.pc = "after_collect",
                                 !.calls = <<"run_data_collection">>,
                                 !.collect_exit = "spawn_failed",
                                 !.data_success =
                                     ReturnOfCollection("spawn_failed", FALSE)]
    /\ UNCHANGED <<script, jwtLib, keyFile, pc, req, cred, lastCred, wire,
                   sends, resp, ret, returned, fault, idx, rc, tpc, tnow,
                   ttok, files, loaded, upd, results, daily, summaries>>

\* The collection child exits: with code 0 after writing its three files,
\* or with code 1 (sys.exit(1) of main or of generate_jwt_token) after
\* writing the first n of them.  On code 0 run_data_collection calls
\* organize_generated_files, which moves the files of script_dir to the
\* day's directory; a rename that raises ends it early, leaving the files
\* of the kinds not in `kinds` behind.  Then run_data_collection returns.
collection_exits(outcome, n, kinds) ==
    /\ script = "collector"
    /\ col.pc = "collecting"
    /\ outcome \in {"exit0", "exit1"}
    /\ outcome = "exit0" => n = Len(WriteOrder)
    /\ outcome = "exit1" => (n < Len(WriteOrder) /\ kinds = {})
    /\ LET written == {File(WriteOrder[i], FALSE, clock, clock) : i \in 1..n}
           present == {f \in files : \A g \in written : ~SameName(f, g)} \cup written
           moved == {f \in present : f.kind \in kinds}
       IN  IF outcome = "exit0"
           THEN /\ files' = present \ moved
                /\ daily' = {f \in daily : \A g \in moved : ~SameName(f, g)} \cup moved
                /\ col' = [col EXCEPT
                             !.pc = "after_collect",
                             !.collect_exit = outcome,
                             !.organize = IF kinds = FileKinds THEN "ok" ELSE "failed",
                             !.data_success =
                                 ReturnOfCollection(outcome, kinds = FileKinds)]
           ELSE /\ files' = present
                /\ daily' = daily
                /\ col' = [col EXCEPT
                             !.pc = "after_collect",
                             !.collect_exit = outcome,
                             !.data_success = ReturnOfCollection(outcome, FALSE)]
    /\ UNCHANGED <<script, jwtLib, keyFile, clock, pc, req, cred, lastCred,
                   wire, sends, resp, ret, returned, fault, idx, rc, tpc,
                   tnow, ttok, loaded, upd, results, summaries>>

\* run_data_collection has returned; the job goes on.  The daily job
\* generates the summary (written when the day's directory holds a file
\* whose name contains 'kpis' and the file operations succeed: io_ok); the
\* other jobs start the dashboard child (io_ok: subprocess.run did not
\* raise) or end.
job_continue(io_ok) ==
    /\ script = "collector"
    /\ col.pc = "after_collect"
    /\ IF CallsSummary(col.job, col.data_success)
       THEN /\ col' = [col EXCEPT !.pc = "done",
                                  !.calls = Append(@, "generate_daily_summary")]
            /\ summaries' = IF OfKind(daily, "kpis") # {} /\ io_ok
                            THEN summaries + 1 ELSE summaries
       ELSE IF RunsDashboard(col.job, col.data_success)
       THEN /\ col' = [col EXCEPT
                         !.pc = IF io_ok THEN "dashboarding" ELSE "done",
                         !.dashboard_exit = IF io_ok THEN "none" ELSE "spawn_failed",
                         !.calls = Append(@, "run_dashboard_generation")]
            /\ summaries' = summaries
       ELSE /\ col' = [col EXCEPT !.pc = "done"]
            /\ summaries' = summaries
    /\ UNCHANGED <<script, jwtLib, keyFile, clock, pc, req, cred, lastCred,
                   wire, sends, resp, ret, returned, fault, idx, rc, tpc,
                   tnow, ttok, files, loaded, upd, results, daily>>

\* The dashboard child exits.  Its main loads with load_latest_data and
\* returns early, with code 0, when that found nothing; it catches every
\* exception of the generation (gen_ok) and exits with code 0 then too;
\* code 1 is an import that failed.  run_dashboard_generation returns and
\* the weekly job decides on its report.
dashboard_exits(outcome, gen_ok) ==
    /\ script = "collector"
    /\ col.pc = "dashboarding"
    /\ outcome \in {"exit0", "exit1"}
    /\ LET data == LoadLatest(files)
           success == outcome = "exit0"
       IN  col' = [col EXCEPT
                     !.pc = "done",
                     !.dashboard_exit = outcome,
                     !.dashboard_success = success,
                     !.generated = success /\ data.ok /\ gen_ok,
                     !.loadedRun = IF success /\ data.ok THEN data.raw.origin ELSE -1,
                     !.calls = IF CallsWeeklyReport(col.job, col.data_success, success)
                               THEN Append(@, "generate_weekly_report") ELSE @]
    /\ UNCHANGED <<script, jwtLib, keyFile, clock, pc, req, cred, lastCred,
                   wire, sends, resp, ret, returned, fault, idx, rc, tpc,
                   tnow, ttok, files, loaded, upd, results, daily, summaries>>

----------------------------------------------------------------------------
Next ==
    \/ \E d \in TickSizes : Tick(d)
    \/ \E k \in KeyFileStates : KeyFileChanges(k)
    \/ /\ script = "analytics"
       /\ \E e \in Endpoints, m \in Methods, k \in Nonces : make_request_begin(e, m, k)
    \/ session_send
    \/ \E s \in StatusesOf(script), t \in Bodies : ReceiveResponse(s, t)
    \/ \E c \in TransportCauses : TransportError(c)
    \/ \E k \in Nonces : main_generate(k)
    \/ test_token_send
    \/ \E d \in TickSizes : TestTick(d)
    \/ \E s \in Statuses, t \in Bodies, c \in BOOLEAN : test_token_response(s, t, c)
    \/ \E c \in TransportCauses : test_token_exception(c)
    \/ test_token_timeout
    \/ \E m \in Methods : retry_new(m)
    \/ \E k \in Nonces : retry_attempt(k)
    \/ retry_check
    \/ \E t \in Threads : thread_load_key(t)
    \/ \E t \in Threads : thread_read_clock(t)
    \/ \E t \in Threads, k \in Nonces : thread_encode(t, k)
    \/ thread_tick
    \/ collection_run
    \/ update_run
    \/ load_latest_data
    \/ file_tick
    \/ \E k \in CollectNonces : collect_call(k)
    \/ collect_store
    \/ \E k \in CollectNonces : create_call(k)
    \/ create_store
    \/ \E j \in Jobs, sp \in BOOLEAN : job_start(j, sp)
    \/ \E o \in ChildOutcomes, n \in 0..3, ks \in SUBSET FileKinds :
          collection_exits(o, n, ks)
    \/ \E io \in BOOLEAN : job_continue(io)
    \/ \E o \in ChildOutcomes, g \in BOOLEAN : dashboard_exits(o, g)

Spec == Init /\ [][Next]_vars

\* The program's own steps are taken when enabled, and time passes; the
\* remote service is under no obligation to answer.  The dashboard child
\* works on local files only and exits; the collection child waits for the
\* remote service.
FairSpec ==
    /\ Spec
    /\ WF_vars(session_send)
    /\ WF_vars(test_token_send)
    /\ WF_vars(test_token_timeout)
    /\ WF_vars(\E d \in TickSizes : Tick(d))
    /\ WF_vars(\E d \in TickSizes : TestTick(d))
    /\ WF_vars(\E io \in BOOLEAN : job_continue(io))
    /\ WF_vars(\E o \in ChildOutcomes, g \in BOOLEAN : dashboard_exits(o, g))

----------------------------------------------------------------------------
\* The classification table of the request client.
TableOutcome(r) ==
    IF r.kind = "transport" THEN "TransportFailure"
    ELSE IF r.status \in {200, 201, 202} THEN "Success"
    ELSE IF r.status \in {401, 403} THEN "AuthFailure"
    ELSE IF r.status \in 400..499 THEN "ClientError"
    ELSE IF r.status \in 500..599 THEN "ServerError"
    ELSE "NotInTable"

\* A make_request call has completed its exchange and returned.
CallCompleted == script = "analytics" /\ returned = 1 /\ resp # NoResp

----------------------------------------------------------------------------
\* C1: every outbound request carries a token that has not expired when it
\* is sent, and that still has at least 60 seconds of validity left: a
\* token closer to expiry is never put on the wire.
C1_CredentialValidWhenSent ==
    wire.sent =>
        /\ wire.sentAt <= jwt_decode(wire.token).exp
        /\ jwt_decode(wire.token).exp - wire.sentAt >= 60

\* C1 witness: test_token reuses its token for the third endpoint after
\* time has passed since it was signed.
C1_Witness ==
    /\ script = "auth_test"
    /\ wire.sent
    /\ wire.endpoint = "/v1/analyticsReports"
    /\ wire.sentAt > jwt_decode(wire.token).iat

\* C2: every token signed has iat equal to the clock read in that call and
\* exp - iat = 1200.
C2_LifetimeIs1200 ==
    [][(cred' # cred /\ cred' # NoCred) =>
          /\ jwt_decode(cred').iat = clock
          /\ jwt_decode(cred').exp - jwt_decode(cred').iat = 1200]_vars

\* C2 witness: a token signed at a clock value other than the initial one.
C2_Witness ==
    /\ cred # NoCred
    /\ jwt_decode(cred).iat = 660
    /\ jwt_decode(cred).exp = 1860

\* C3 (as claimed): a credential request made while the previous token is
\* still outside the 60 s margin of its expiry returns that same token,
\* and a request more than 1200 s after the previous one returns a
\* different token.
C3_CachedTokenReused ==
    [][(pc = "idle" /\ pc' = "built" /\ lastCred # NoCred) =>
          /\ (jwt_decode(lastCred).exp - clock >= 60 => cred' = lastCred)
          /\ (clock - wire.sentAt > 1200 => cred' # lastCred)]_vars

\* C4: whatever the network or HTTP condition, make_request lets no
\* exception escape and, once the exchange is over, has returned exactly
\* one value.
C4_OneOutcomeNoFault ==
    script = "analytics" =>
        /\ fault = "none"
        /\ pc # "raised"
        /\ returned <= 1
        /\ (resp # NoResp => returned = 1 /\ ret # NoRet /\ pc = "idle")

\* C4 witness: a 200 response with an unparsable body was turned into a
\* returned value.
C4_Witness ==
    /\ CallCompleted
    /\ resp.kind = "http"
    /\ resp.status = 200
    /\ ~ParseJson(resp.text).ok
    /\ ret # NoRet

\* C5 (as claimed): the returned value reads as the variant the table
\* gives for the response (bodies that parse, or statuses outside 2xx;
\* the unparsable 2xx body is C8's case).
C5_ClassifiedByTable ==
    (/\ CallCompleted
     /\ TableOutcome(resp) # "NotInTable"
     /\ (resp.kind = "http" /\ resp.status \in 200..299 => ParseJson(resp.text).ok))
        => OutcomeOf(ret) = TableOutcome(resp)

\* C6: a 401 or 403 response is returned as an authentication failure (an
\* error value carrying that status), never as a client error.
C6_AuthFailureOn401 ==
    (CallCompleted /\ resp.kind = "http" /\ resp.status \in {401, 403}) =>
        /\ OutcomeOf(ret) = "AuthFailure"
        /\ OutcomeOf(ret) # "ClientError"
        /\ ret.error = JInt(resp.status)

\* C6 witness: a call that met a 401 has returned.
C6_Witness ==
    /\ CallCompleted
    /\ resp.kind = "http"
    /\ resp.status = 401
    /\ "error" \in DOMAIN ret

C8_UndecodableIsServerError ==
    (/\ CallCompleted
     /\ resp.kind = "http"
     /\ resp.status \in 200..299
     /\ ~ParseJson(resp.text).ok)
        => OutcomeOf(ret) = "ServerError"

\* C9 (as claimed): a request that has been sent is eventually resolved
\* and the call returns, even if the remote never answers.
C9_CallEventuallyReturns ==
    (script = "analytics" /\ pc = "waiting") ~> (pc = "idle" /\ returned = 1)

\* C10: a make_request call never has more than one request on the wire,
\* and when it returns it has sent exactly one, whatever the outcome.
C10_OneRequestPerCall ==
    script = "analytics" =>
        /\ sends <= 1
        /\ (pc = "waiting" => sends = 1)
        /\ (returned = 1 => sends = 1)

\* C10 witness: a call whose exchange failed has returned after one send.
C10_Witness ==
    /\ CallCompleted
    /\ OutcomeOf(ret) = "TransportFailure"
    /\ sends = 1

\* An attempt the error-handling design calls transient: a transport
\* failure, a 5xx, or a 2xx whose body does not parse.
Transient(m) == m.s = 0 \/ m.s \in 500..599 \/ (m.s \in 200..299 /\ ~m.ok)

C13_RetryOnlyTransientIdempotent ==
    script = "retry" =>
        /\ rc.attempts <= 3
        /\ Len(rc.seen) <= 3
        /\ sends <= 1
        /\ \A i \in 1..Len(rc.seen) :
              (i < Len(rc.seen) \/ rc.state = "attempt") =>
                  (Transient(rc.seen[i]) /\ rc.method = "GET")

\* C13 witness: a POST that met a 503 was handed back after one attempt.
C13_Witness ==
    /\ script = "retry"
    /\ rc.state = "done"
    /\ rc.method = "POST"
    /\ rc.attempts = 1
    /\ rc.seen[1].s = 503
    /\ sends = 1

C14_IssuanceFailureIsFatal ==
    /\ [](script \in {"analytics", "retry"} =>
            /\ (pc \in {"built", "waiting"} =>
                    (jwtLib /\ keyFile = "valid" /\ cred # NoCred))
            /\ (pc = "exited" => (sends = 0 /\ returned = 0 /\ cred = NoCred)))
    /\ [](script = "auth_test" =>
            (pc \in {"test_send", "test_wait"} => cred # NoCred))
    /\ [][(script \in {"analytics", "retry"} /\ pc = "exited") =>
            (pc' = "exited" /\ sends' = sends /\ cred' = cred /\ wire' = wire)]_vars

\* C14 witness: after a call that succeeded the key file went missing, and
\* the next call stopped without sending.
C14_Witness ==
    /\ script = "analytics"
    /\ pc = "exited"
    /\ keyFile = "missing"
    /\ lastCred # NoCred
    /\ sends = 0

\* C15 (as claimed): make_request and the generate_jwt_token it calls never
\* end the process; every call ends by returning or raising.
C15_LibraryNeverExits ==
    script = "analytics" => pc # "exited"

\* C16: inside one call the token is signed first, the request is built
\* with it, sent once, and only then is there a response to classify; the
\* token on the wire is the one signed in this call.
C16_StepsInOrder ==
    script = "analytics" =>
        /\ (pc = "built" =>
                (cred # NoCred /\ sends = 0 /\ resp = NoResp /\ ret = NoRet))
        /\ (pc = "waiting" =>
                /\ cred # NoCred
                /\ wire.sent
                /\ wire.token = cred
                /\ wire.endpoint = req.endpoint
                /\ sends = 1
                /\ resp = NoResp
                /\ ret = NoRet)
        /\ (CallCompleted => (sends = 1 /\ wire.token = lastCred))

\* C16 witness: the second call's request is on the wire with the second
\* call's token, which differs from the first call's.
C16_Witness ==
    /\ script = "analytics"
    /\ pc = "waiting"
    /\ lastCred # NoCred
    /\ cred # lastCred
    /\ wire.token = cred

\* C17 (as claimed): the signing identity is the one loaded at start, so
\* once a token has been signed with it every later call can sign too,
\* whatever became of the key file.
C17_IdentityLoadedOnce ==
    [][(/\ script = "analytics"
        /\ lastCred # NoCred
        /\ pc = "idle"
        /\ pc' # "idle") => pc' = "built"]_vars

\* C18: generating a token sends nothing and changes nothing but the
\* caller's token: the wire, the count of requests sent, the files, the
\* key file, the clock and what earlier calls returned stay as they were;
\* a thread's step leaves the other thread's token alone.
C18_IssueHasNoSideEffects ==
    /\ [][(pc = "main" /\ pc' # "main") =>
            /\ wire' = wire /\ sends' = sends /\ resp' = resp
            /\ ret' = ret /\ returned' = returned /\ lastCred' = lastCred
            /\ keyFile' = keyFile /\ clock' = clock
            /\ files' = files /\ loaded' = loaded]_vars
    /\ [][(script \in {"analytics", "retry"} /\ pc = "idle" /\ pc' # "idle") =>
            /\ wire' = wire /\ sends' = 0 /\ lastCred' = lastCred
            /\ keyFile' = keyFile /\ clock' = clock
            /\ files' = files /\ loaded' = loaded]_vars
    /\ [][\A t \in Threads : tpc'[t] # tpc[t] =>
            /\ \A u \in Threads \ {t} : ttok'[u] = ttok[u] /\ tnow'[u] = tnow[u]
            /\ wire' = wire /\ sends' = sends /\ clock' = clock
            /\ keyFile' = keyFile /\ files' = files]_vars

\* C18 witness: the test script holds a fresh token and nothing has been
\* sent.
C18_Witness ==
    /\ script = "auth_test"
    /\ pc = "test_send"
    /\ idx = 1
    /\ cred # NoCred
    /\ wire = NoWire
    /\ sends = 0

\* A token of header, claims and signature with the required fields.
WellFormedToken(tok) ==
    /\ Len(tok) = 3
    /\ {"kid", "typ"} \subseteq DOMAIN tok[1]
    /\ tok[1].kid = key_id
    /\ tok[1].typ = "JWT"
    /\ {"iss", "iat", "exp", "aud"} \subseteq DOMAIN tok[2]
    /\ tok[2].iss = issuer_id
    /\ tok[2].aud = "appstoreconnect-v1"
    /\ DOMAIN tok[3] = {"over", "k"}

\* C19: every token generate_jwt_token returned, wherever it is held (by
\* the call in progress, on the wire, by the test script that decodes it,
\* by a thread), has exactly three segments, kid and typ in the header and
\* iss, iat, exp and aud in the claims.
C19_TokenHasThreeSegments ==
    /\ (cred # NoCred => WellFormedToken(cred))
    /\ (lastCred # NoCred => WellFormedToken(lastCred))
    /\ (wire.sent => WellFormedToken(wire.token))
    /\ \A t \in Threads : ttok[t] # NoCred => WellFormedToken(ttok[t])

\* C19 witness: the test script has a token to decode and has sent it.
C19_Witness ==
    /\ script = "auth_test"
    /\ pc = "test_wait"
    /\ WellFormedToken(cred)
    /\ wire.token = cred
    /\ jwt_decode(cred).exp = jwt_decode(cred).iat + 1200

\* C20 (as claimed): the raw-data, KPI and report files load_latest_data
\* returns all carry the data of the most recent collection run.
C20_LoadsLatestRun ==
    (script = "dashboard" /\ loaded.called /\ loaded.ok) =>
        /\ loaded.raw.origin = loaded.atRun
        /\ loaded.kpis.origin = loaded.atRun
        /\ loaded.report.origin = loaded.atRun

\* C21 (as claimed): the file the update script reads is the raw-data file
\* of the most recent collection run, never the output of an earlier
\* update, and the file it writes is not the file it read.
C21_UpdatesLatestCollected ==
    (script = "dashboard" /\ upd.called /\ upd.ok) =>
        /\ ~upd.input.updated
        /\ upd.input.ts = upd.atRun
        /\ ~SameName(upd.input, upd.output)

\* C23 (as claimed): each of the three results of collect_marketing_data
\* is filed under its success key exactly when the request met a 200, 201
\* or 202 with a body that parses, under its error key otherwise, and
\* never under both.
C23_FiledBySuccessOfRequest ==
    script = "collect" =>
        \A i \in 1..results.step :
            LET plan == CollectPlan[i]
                m == results.met[i]
            IN  /\ (plan.key \in DOMAIN results.data) <=>
                       (m.s \in {200, 201, 202} /\ m.ok)
                /\ (plan.key \in DOMAIN results.data) <=>
                       (plan.error_key \notin DOMAIN results.data)

\* C24: when create_comprehensive_analytics_requests has gone through its
\* loop it has sent three requests, all POST, created_requests lists the
\* three report types in configuration order whatever each request met,
\* and errors is empty.
C24_OneEntryPerReportType ==
    script = "create" =>
        /\ results.posts = results.step
        /\ Len(results.created_requests) = results.step
        /\ results.errors = <<>>
        /\ \A i \in 1..results.step :
              results.created_requests[i].report_type = report_types[i]
        /\ (wire.sent => wire.method = "POST")
        /\ results.step <= 3

\* C24 witness: the loop is over after a 500, a transport failure and a
\* 200 whose body is not JSON.
C24_Witness ==
    /\ script = "create"
    /\ results.step = 3
    /\ results.met[1].s = 500
    /\ results.met[2].s = 0
    /\ results.met[3].s = 200 /\ ~results.met[3].ok
    /\ Len(results.created_requests) = 3

\* The job has got past run_data_collection.
CollectionReturned == script = "collector" /\ col.pc \in {"after_collect", "dashboarding", "done"}

\* C22 (as claimed): in the weekly job, after a collection that succeeded,
\* run_dashboard_generation returns True only if the dashboard script
\* loaded the files of this collection and generated dashboards from them.
C22_DashboardFindsCollectedFiles ==
    (/\ script = "collector"
     /\ col.job = "weekly"
     /\ col.pc = "done"
     /\ col.data_success
     /\ col.dashboard_success) =>
        (col.generated /\ col.loadedRun = clock)

\* C25: run_data_collection returns True exactly when the child exited
\* with code 0; organize_generated_files is called exactly then, and the
\* value returned is the same whether organizing worked or failed.
C25_TrueIffExitCodeZero ==
    CollectionReturned =>
        /\ col.data_success <=> (col.collect_exit = "exit0")
        /\ (col.organize # "not_called") <=> (col.collect_exit = "exit0")
        /\ (col.organize = "failed" => col.data_success)

\* C25 witness: the child exited with 0, moving the files failed half way,
\* and run_data_collection returned True.
C25_Witness ==
    /\ CollectionReturned
    /\ col.collect_exit = "exit0"
    /\ col.organize = "failed"
    /\ col.data_success
    /\ files # {}
    /\ daily # {}

\* C26 (as claimed): a job that has started its collection child gets past
\* run_data_collection, and one that has started its dashboard child gets
\* to its end.
C26_JobEventuallyFinishes ==
    (script = "collector" /\ col.pc \in {"collecting", "dashboarding"})
        ~> (col.pc = "done")

\* C27: the weekly job calls run_data_collection and then
\* run_dashboard_generation whatever the first returned, and calls
\* generate_weekly_report exactly when both returned True.
C27_WeeklyRunsBoth ==
    (script = "collector" /\ col.job = "weekly") =>
        /\ (col.pc \in {"dashboarding", "done"} =>
                /\ Len(col.calls) >= 2
                /\ col.calls[1] = "run_data_collection"
                /\ col.calls[2] = "run_dashboard_generation")
        /\ (col.pc = "done" =>
                ((\E i \in 1..Len(col.calls) : col.calls[i] = "generate_weekly_report")
                    <=> (col.data_success /\ col.dashboard_success)))
        /\ (col.pc = "done" /\ Len(col.calls) = 3 =>
                col.calls[3] = "generate_weekly_report")
        /\ Len(col.calls) <= 3

\* C27 witness: the collection failed, the dashboards were generated all
\* the same, and no weekly report was asked for.
C27_Witness ==
    /\ script = "collector"
    /\ col.job = "weekly"
    /\ col.pc = "done"
    /\ ~col.data_success
    /\ col.dashboard_success
    /\ col.calls = <<"run_data_collection", "run_dashboard_generation">>

\* C28: the daily job calls generate_daily_summary only after
\* run_data_collection returned True, and daily_summary.json is written
\* only in a daily job whose collection succeeded and whose day's
\* directory holds a file with 'kpis' in its name.
C28_SummaryOnlyAfterSuccess ==
    /\ []((script = "collector" /\ col.job = "daily") =>
            /\ ((\E i \in 1..Len(col.calls) : col.calls[i] = "generate_daily_summary")
                    => (col.data_success /\ col.calls[1] = "run_data_collection"
                        /\ col.pc = "done"))
            /\ Len(col.calls) <= 2)
    /\ []((script = "collector" /\ col.job # "daily") =>
            \A i \in 1..Len(col.calls) : col.calls[i] # "generate_daily_summary")
    /\ [][summaries' # summaries =>
            /\ summaries' = summaries + 1
            /\ col.job = "daily"
            /\ col.data_success
            /\ OfKind(daily, "kpis") # {}
            /\ daily' = daily]_vars

\* C28 witness: a summary was written by an earlier job, and the daily job
\* that failed after it has ended without touching it.
C28_Witness ==
    /\ script = "collector"
    /\ col.job = "daily"
    /\ col.pc = "done"
    /\ ~col.data_success
    /\ summaries = 1
    /\ col.calls = <<"run_data_collection">>

\* C29: in run_manual_collection, run_dashboard_generation is called only
\* when run_data_collection returned True.
C29_ManualDashboardOnlyAfterSuccess ==
    (script = "collector" /\ col.job = "manual") =>
        /\ ((\E i \in 1..Len(col.calls) : col.calls[i] = "run_dashboard_generation")
                => (col.data_success /\ col.calls[1] = "run_data_collection"))
        /\ (col.pc = "dashboarding" => col.data_success)
        /\ (~col.data_success => (col.dashboard_exit = "none" /\ ~col.generated))

\* C29 witness: the manual run's collection failed and the run ended with
\* that one call.
C29_Witness ==
    /\ script = "collector"
    /\ col.job = "manual"
    /\ col.pc = "done"
    /\ col.collect_exit = "exit1"
    /\ col.calls = <<"run_data_collection">>

====
